---- MODULE Spec2Model ----
(***************************************************************************)
(* org-roam-to-obsidian-converter (src/src/main.rs).                       *)
(*                                                                         *)
(* main asks for confirmation, loads every org-roam node into a HashMap    *)
(* keyed by id (get_nodes, which sanitises each row with Node::cleanup),   *)
(* rewrites the id links of every node's backing file (patch_links), and   *)
(* then exports every node to Markdown through emacs (export).             *)
(*                                                                         *)
(* A Rust String is modelled as a sequence of one-character strings, so    *)
(* that str::replace and the link regex work on characters as they do in   *)
(* the program.                                                            *)
(***************************************************************************)
EXTENDS Integers, Sequences, FiniteSets, TLC

----------------------------------------------------------------------------
(* Bounds of the model.                                                    *)

\* Rows the store holds at most (pipeline specification).
MaxRows == 2
\* Fragments a backing file is assembled from at most (resolver specification).
MaxFrags == 3
\* Characters a raw title holds at most (cleanup specification).
MaxTitleLen == 4

----------------------------------------------------------------------------
(* Characters and string helpers.                                          *)

Quote == "\""
Slash == "/"
Space == " "
RBracket == "]"

Range(s) == {s[k] : k \in DOMAIN s}

\* Whether the text w stands in s at position p.
LooksAt(s, p, w) ==
    /\ p >= 1
    /\ p + Len(w) - 1 <= Len(s)
    /\ SubSeq(s, p, p + Len(w) - 1) = w

\* Whether the text w occurs somewhere in s.
Contains(s, w) == \E p \in 1..(Len(s) + 1) : LooksAt(s, p, w)

\* str::replace(from: char, to: &str): every occurrence of the character
\* from is replaced by the text to, left to right, in one pass.
RECURSIVE replace(_, _, _)
replace(s, from, to) ==
    IF s = <<>> THEN <<>>
    ELSE (IF Head(s) = from THEN to ELSE <<Head(s)>>) \o replace(Tail(s), from, to)

----------------------------------------------------------------------------
(* Node::cleanup.                                                          *)

Over == <<" ", "o", "v", "e", "r", " ">>

\* A title whose slashes are replaced and whose quotes stay.
cleanup_title_keeps_quote(title) == replace(title, Slash, Over)

\* The title with its quotes removed and then each slash replaced by " over ".
cleanup_title(title) == replace(replace(title, Quote, <<>>), Slash, Over)

\* Node::cleanup: title, file and id lose their quotes, the title's slashes
\* become " over "; level is left alone.
cleanup(n) ==
    [id    |-> replace(n.id, Quote, <<>>),
     file  |-> replace(n.file, Quote, <<>>),
     level |-> n.level,
     title |-> cleanup_title(n.title)]

----------------------------------------------------------------------------
(* The link regex  \[\[id:([0-9A-F-]+?)\]\[([^\]]+?)\]\]  and replace_all.  *)

LinkOpen  == <<"[", "[", "i", "d", ":">>
LinkMid   == <<"]", "[">>
LinkClose == <<"]", "]">>

\* The class [0-9A-F-].
IdChars == {"0", "1", "2", "3", "4", "5", "6", "7", "8", "9",
            "A", "B", "C", "D", "E", "F", "-"}

\* Group 1 starting at position a: the ends e of a run a..e of id characters
\* that "][" follows.  +? is lazy: the regex takes the least such end.
IdEnds(s, a) ==
    {e \in a..Len(s) :
        /\ \A k \in a..e : s[k] \in IdChars
        /\ LooksAt(s, e + 1, LinkMid)}

\* Group 2 starting at position b: the ends e of a run b..e of characters
\* other than "]" that "]]" follows.
NameEnds(s, b) ==
    {e \in b..Len(s) :
        /\ \A k \in b..e : s[k] # RBracket
        /\ LooksAt(s, e + 1, LinkClose)}

Least(S) == CHOOSE x \in S : \A y \in S : x <= y

\* Whether the regex matches at position p.
is_match_at(s, p) ==
    /\ LooksAt(s, p, LinkOpen)
    /\ \E e \in IdEnds(s, p + Len(LinkOpen)) :
          NameEnds(s, e + Len(LinkMid) + 1) # {}

\* The captures of the match at position p: where it starts and ends, and
\* groups 1 (id) and 2 (name).
captures_at(s, p) ==
    LET a  == p + Len(LinkOpen)
        ie == Least({e \in IdEnds(s, a) : NameEnds(s, e + Len(LinkMid) + 1) # {}})
        b  == ie + Len(LinkMid) + 1
        ne == Least(NameEnds(s, b))
    IN  [start |-> p,
         end   |-> ne + Len(LinkClose),
         id    |-> SubSeq(s, a, ie),
         name  |-> SubSeq(s, b, ne)]

\* Regex::captures_iter: the successive non-overlapping matches from
\* position p on, leftmost first.
RECURSIVE captures_iter(_, _)
captures_iter(s, p) ==
    IF p > Len(s) THEN <<>>
    ELSE IF is_match_at(s, p)
         THEN LET caps == captures_at(s, p)
              IN  <<caps>> \o captures_iter(s, caps.end + 1)
         ELSE captures_iter(s, p + 1)

PercentTwenty == <<"%", "2", "0">>
DotSlash == <<".", "/">>
DotMd == <<".", "m", "d">>

\* The same without the percent-encoding of spaces.
target_file_of_raw(title) == DotSlash \o title \o DotMd

\* format!("./{}.md", target_node.title.replace(' ', "%20"))
target_file_of(title) == DotSlash \o replace(title, Space, PercentTwenty) \o DotMd

\* The closure handed to replace_all: format!("[[{target_file}][{name}]]")
\* for the node that nodes holds under the captured id.
replacement(caps, nodes) ==
    <<"[", "[">> \o target_file_of(nodes[caps.id].title) \o LinkMid
        \o caps.name \o LinkClose

\* Regex::replace_all: the text between the matches is copied, each match is
\* replaced by what the closure returns for it.
RECURSIVE splice(_, _, _, _)
splice(s, p, caps, nodes) ==
    IF caps = <<>> THEN SubSeq(s, p, Len(s))
    ELSE SubSeq(s, p, Head(caps).start - 1)
            \o replacement(Head(caps), nodes)
            \o splice(s, Head(caps).end + 1, Tail(caps), nodes)

replace_all(contents, nodes) == splice(contents, 1, captures_iter(contents, 1), nodes)

\* nodes.get(id).unwrap() panics for some match: an id the index lacks.
unwrap_panics(contents, nodes) ==
    LET found == captures_iter(contents, 1)
    IN  \E k \in DOMAIN found : found[k].id \notin DOMAIN nodes

----------------------------------------------------------------------------
(* The state of a run.                                                     *)

VARIABLES
    pc,      \* where main stands: "confirm", "load", "patch", "export", or how it ended
    input,   \* the line stdin holds for read_line
    rows,    \* the rows of the store's nodes table, in the order fetch_all returns them
    files0,  \* the backing files as they were when the run started
    files,   \* the backing files on disk: path -> contents
    target,  \* the files of target_dir: title -> what wrote the file
    nodes,   \* the HashMap get_nodes returned: id -> Node
    order,   \* the order nodes.values() iterates in
    idx,     \* the position of the running for loop in order
    log,     \* the patch_links and export calls made so far, with how each ended
    err      \* the message of the error main returned, or of the panic; "" for none

vars == <<pc, input, rows, files0, files, target, nodes, order, idx, log, err>>

Affirmative == <<"y", "\n">>

\* A check of the first character alone.
affirmative_prefix(line) == line # <<>> /\ line[1] = "y"

\* main, line 35: only the line "y\n" goes on.
affirmative(line) == line = Affirmative

\* How a run ends: main returned Ok, main returned Err, or a panic unwound it.
Ended == {"done", "failed", "panicked"}

\* A destination file that was there before the run, and one the converter wrote.
Preexisting == [by |-> "preexisting", id |-> <<>>, subtree_only |-> FALSE]
Converted(n) == [by |-> "converter", id |-> n.id, subtree_only |-> n.level # 0]

\* A check that never finds the destination.
target_exists_never(t, title) == FALSE

\* Path::new(&target_file).exists() for format!("{target_dir}/{}.md", node.title)
target_exists(t, title) == title \in DOMAIN t

\* The node the running loop stands at.
current == nodes[order[idx]]

Logged(op, n, res) == Append(log, [op |-> op, id |-> n.id, res |-> res])

\* The orders a HashMap of the keys S may iterate in.
Orders(S) ==
    {o \in [1..Cardinality(S) -> S] : \A a, b \in DOMAIN o : a # b => o[a] # o[b]}

\* rows.iter().map(|n| (n.id.clone(), n.clone())).collect(): of two rows
\* with one id the later one stays.
collect(rs) ==
    [k \in {rs[j].id : j \in DOMAIN rs} |->
        rs[CHOOSE j \in DOMAIN rs :
              /\ rs[j].id = k
              /\ \A i \in DOMAIN rs : rs[i].id = k => i <= j]]

\* for row in rows.iter_mut() { row.cleanup(); }
cleaned(rs) == [j \in DOMAIN rs |-> cleanup(rs[j])]

----------------------------------------------------------------------------
(* main, lines 31-37: the confirmation prompt.                             *)

\* stdout().flush()? or stdin().read_line()? fails: main returns the error.
confirm_io_failed ==
    /\ pc = "confirm"
    /\ pc' = "failed"
    /\ err' = "io error on the prompt"
    /\ UNCHANGED <<input, rows, files0, files, target, nodes, order, idx, log>>

\* The line is not "y\n": return Ok(()).
confirm_declined ==
    /\ pc = "confirm"
    /\ ~affirmative(input)
    /\ pc' = "done"
    /\ UNCHANGED <<input, rows, files0, files, target, nodes, order, idx, log, err>>

confirm_accepted ==
    /\ pc = "confirm"
    /\ affirmative(input)
    /\ pc' = "load"
    /\ UNCHANGED <<input, rows, files0, files, target, nodes, order, idx, log, err>>

----------------------------------------------------------------------------
(* get_nodes, called at lines 40-42.                                       *)

\* The store cannot be opened or queried.
get_nodes_failed ==
    /\ pc = "load"
    /\ pc' = "failed"
    /\ err' = "failed to load org-roam nodes"
    /\ UNCHANGED <<input, rows, files0, files, target, nodes, order, idx, log>>

\* Every row is cleaned up and collected into the map; the first loop starts.
get_nodes_ok ==
    /\ pc = "load"
    /\ nodes' = collect(cleaned(rows))
    /\ order' \in Orders(DOMAIN nodes')
    /\ idx' = 1
    /\ pc' = "patch"
    /\ UNCHANGED <<input, rows, files0, files, target, log, err>>

----------------------------------------------------------------------------
(* patch_links, called for every node at lines 49-54.                      *)

InPatchLoop == pc = "patch" /\ idx <= Len(order)

\* read_to_string fails (the file is missing, or any other read error).
patch_links_read_failed ==
    /\ InPatchLoop
    /\ log' = Logged("patch", current, "read_err")
    /\ pc' = "failed"
    /\ err' = "failed to read original file"
    /\ UNCHANGED <<input, rows, files0, files, target, nodes, order, idx>>

\* A match naming an id the map lacks being passed over, the run going on.
patch_links_panicked_passes ==
    /\ InPatchLoop
    /\ current.file \in DOMAIN files
    /\ unwrap_panics(files[current.file], nodes)
    /\ log' = Logged("patch", current, "ok")
    /\ idx' = idx + 1
    /\ UNCHANGED <<pc, input, rows, files0, files, target, nodes, order, err>>

\* A match names an id the map lacks: unwrap panics before anything is written.
patch_links_panicked ==
    /\ InPatchLoop
    /\ current.file \in DOMAIN files
    /\ unwrap_panics(files[current.file], nodes)
    /\ log' = Logged("patch", current, "panic")
    /\ pc' = "panicked"
    /\ err' = "called Option::unwrap() on a None value"
    /\ UNCHANGED <<input, rows, files0, files, target, nodes, order, idx>>

\* tokio::fs::write fails: the file is as it was, or holds a part of the
\* new contents (write creates, truncates and then writes).
patch_links_write_failed ==
    /\ InPatchLoop
    /\ current.file \in DOMAIN files
    /\ ~unwrap_panics(files[current.file], nodes)
    /\ LET new == replace_all(files[current.file], nodes)
       IN  \/ files' = files
           \/ \E k \in 0..Len(new) :
                 files' = [files EXCEPT ![current.file] = SubSeq(new, 1, k)]
    /\ log' = Logged("patch", current, "write_err")
    /\ pc' = "failed"
    /\ err' = "failed to save patched file"
    /\ UNCHANGED <<input, rows, files0, target, nodes, order, idx>>

\* The links being replaced in memory and the result never written back.
patch_links_ok_no_write ==
    /\ InPatchLoop
    /\ current.file \in DOMAIN files
    /\ ~unwrap_panics(files[current.file], nodes)
    /\ log' = Logged("patch", current, "ok")
    /\ idx' = idx + 1
    /\ UNCHANGED <<pc, input, rows, files0, files, target, nodes, order, err>>

\* The file is read, its links are replaced and it is written back.
patch_links_ok ==
    /\ InPatchLoop
    /\ current.file \in DOMAIN files
    /\ ~unwrap_panics(files[current.file], nodes)
    /\ files' = [files EXCEPT ![current.file] = replace_all(files[current.file], nodes)]
    /\ log' = Logged("patch", current, "ok")
    /\ idx' = idx + 1
    /\ UNCHANGED <<pc, input, rows, files0, target, nodes, order, err>>

\* The second loop starting while nodes are still to be patched.
patch_pass_done_early ==
    /\ pc = "patch"
    /\ idx > 1
    /\ pc' = "export"
    /\ idx' = 1
    /\ UNCHANGED <<input, rows, files0, files, target, nodes, order, log, err>>

\* Lines 56-57: the first loop is over, the second one starts.
patch_pass_done ==
    /\ pc = "patch"
    /\ idx > Len(order)
    /\ pc' = "export"
    /\ idx' = 1
    /\ UNCHANGED <<input, rows, files0, files, target, nodes, order, log, err>>

----------------------------------------------------------------------------
(* export, called for every node at lines 59-64.                           *)

InExportLoop == pc = "export" /\ idx <= Len(order)

\* The converter being run although the destination exists.
export_skipped_overwrites ==
    /\ InExportLoop
    /\ target_exists(target, current.title)
    /\ target' = [target EXCEPT ![current.title] = Converted(current)]
    /\ log' = Logged("export", current, "ok")
    /\ idx' = idx + 1
    /\ UNCHANGED <<pc, input, rows, files0, files, nodes, order, err>>

\* The destination exists: return Ok(()) at once.
export_skipped ==
    /\ InExportLoop
    /\ target_exists(target, current.title)
    /\ log' = Logged("export", current, "skip")
    /\ idx' = idx + 1
    /\ UNCHANGED <<pc, input, rows, files0, files, target, nodes, order, err>>

\* emacs cannot be spawned, or waiting for it fails.
export_spawn_failed ==
    /\ InExportLoop
    /\ ~target_exists(target, current.title)
    /\ log' = Logged("export", current, "spawn_err")
    /\ pc' = "failed"
    /\ err' = "failed to run emacs"
    /\ UNCHANGED <<input, rows, files0, files, target, nodes, order, idx>>

\* The next node being taken up after emacs exited with a failure.
export_exit_failed_goes_on ==
    /\ InExportLoop
    /\ ~target_exists(target, current.title)
    /\ log' = Logged("export", current, "exit_err")
    /\ idx' = idx + 1
    /\ UNCHANGED <<pc, input, rows, files0, files, target, nodes, order, err>>

\* emacs ran and exited with a failure; it may have written the file or not.
export_exit_failed ==
    /\ InExportLoop
    /\ ~target_exists(target, current.title)
    /\ \/ target' = target
       \/ target' = [t \in DOMAIN target \cup {current.title} |->
                        IF t = current.title THEN Converted(current) ELSE target[t]]
    /\ log' = Logged("export", current, "exit_err")
    /\ pc' = "failed"
    /\ err' = "Failed to export"
    /\ UNCHANGED <<input, rows, files0, files, nodes, order, idx>>

\* emacs ran org-export-to-file for the node and exited with success.
export_ok ==
    /\ InExportLoop
    /\ ~target_exists(target, current.title)
    /\ target' = [t \in DOMAIN target \cup {current.title} |->
                     IF t = current.title THEN Converted(current) ELSE target[t]]
    /\ log' = Logged("export", current, "ok")
    /\ idx' = idx + 1
    /\ UNCHANGED <<pc, input, rows, files0, files, nodes, order, err>>

\* Lines 65-67: the second loop is over; main returns Ok(()).
export_pass_done ==
    /\ pc = "export"
    /\ idx > Len(order)
    /\ pc' = "done"
    /\ UNCHANGED <<input, rows, files0, files, target, nodes, order, idx, log, err>>

----------------------------------------------------------------------------
(* The pipeline specification: whole runs of main over small corpora.      *)

Node(id, file, level, title) == [id |-> id, file |-> file, level |-> level, title |-> title]

AOrg == <<"a", ".", "o", "r", "g">>
BOrg == <<"b", ".", "o", "r", "g">>
Alpha == <<"A", "l", "p", "h", "a">>
Beta == <<"B", "e", "t", "a">>
AOverB == <<"A", " ", "o", "v", "e", "r", " ", "B">>
IdN1 == <<"N", "1">>
IdN2 == <<"N", "2">>
IdA1 == <<"A", "1">>
IdA2 == <<"A", "2">>

\* The rows a store is drawn from, in the order of the table.
RowPool ==
    << Node(IdN1, AOrg, 0, Alpha),
       Node(IdN2, AOrg, 1, Beta),
       Node(IdA1, AOrg, 0, Alpha),
       Node(IdA2, AOrg, 1, Beta),
       Node(<<"B", "3">>, BOrg, 0, <<"A", "/", "B">>),
       Node(<<"C", "4">>, BOrg, 1, AOverB) >>

\* The elements of the set of indices S in increasing order.
Ascending(S) ==
    CHOOSE f \in [1..Cardinality(S) -> S] : \A a, b \in DOMAIN f : a < b => f[a] < f[b]

\* The stores: at most MaxRows rows of the pool, in table order.
Stores ==
    {[j \in 1..Cardinality(S) |-> RowPool[Ascending(S)[j]]] :
        S \in {T \in SUBSET DOMAIN RowPool : Cardinality(T) <= MaxRows}}

LinkN2 == <<"[", "[", "i", "d", ":", "N", "2", "]", "[", "g", "o", "]", "]">>
LinkA2 == <<"[", "[", "i", "d", ":", "A", "2", "]", "[", "g", "o", "]", "]">>
LinkFF == <<"[", "[", "i", "d", ":", "F", "F", "]", "[", "g", "o", "]", "]">>
PatchedBeta ==
    <<"[", "[", ".", "/", "B", "e", "t", "a", ".", "m", "d", "]", "[", "g", "o", "]", "]">>

\* What a.org may hold when a run starts.
DocPool == {LinkN2, LinkA2, LinkA2 \o LinkFF, <<"g", "o">>}

\* The disks: a.org holds a document of the pool, b.org is there or not.
Disks ==
    {[f \in {AOrg} |-> d] : d \in DocPool}
        \cup {[f \in {AOrg, BOrg} |-> IF f = AOrg THEN d ELSE LinkA2] : d \in DocPool}

\* The target directories: empty, or holding one file from an earlier run.
Targets == {<<>>} \cup {[t \in {title} |-> Preexisting] : title \in {Alpha, AOverB}}

\* The lines stdin may hold.
Lines == {Affirmative, <<"n", "\n">>, <<>>, <<"y">>, <<"Y", "\n">>,
          <<"y", "e", "s", "\n">>}

Init ==
    /\ pc = "confirm"
    /\ input \in Lines
    /\ rows \in Stores
    /\ files0 \in Disks
    /\ files = files0
    /\ target \in Targets
    /\ nodes = <<>>
    /\ order = <<>>
    /\ idx = 1
    /\ log = <<>>
    /\ err = ""

Next ==
    \/ confirm_io_failed
    \/ confirm_declined
    \/ confirm_accepted
    \/ get_nodes_failed
    \/ get_nodes_ok
    \/ patch_links_read_failed
    \/ patch_links_panicked
    \/ patch_links_write_failed
    \/ patch_links_ok
    \/ patch_pass_done
    \/ export_skipped
    \/ export_spawn_failed
    \/ export_exit_failed
    \/ export_ok
    \/ export_pass_done

Spec == Init /\ [][Next]_vars

----------------------------------------------------------------------------
(* The cleanup specification: get_nodes on one raw row whose title, id and *)
(* file are drawn from all short texts with quotes and slashes in them.    *)

TitleChars == {"A", "B", Quote, Slash, Space}

FooQuoteBar == <<"F", "o", "o", "\"", "B", "a", "r">>

RawTitles ==
    UNION {[1..k -> TitleChars] : k \in 0..MaxTitleLen} \cup {FooQuoteBar}

RawIds == {IdA1, <<"\"", "A", "1", "\"">>, <<"A", "\"", "1">>}

RawFiles == {AOrg, <<"\"", "a", ".", "o", "r", "g", "\"">>}

CleanupInit ==
    /\ pc = "load"
    /\ input = Affirmative
    /\ \E id \in RawIds, file \in RawFiles, level \in {0, 1}, title \in RawTitles :
          rows = <<Node(id, file, level, title)>>
    /\ files0 = [f \in {AOrg} |-> <<"g", "o">>]
    /\ files = files0
    /\ target = <<>>
    /\ nodes = <<>>
    /\ order = <<>>
    /\ idx = 1
    /\ log = <<>>
    /\ err = ""

CleanupNext == get_nodes_ok

CleanupSpec == CleanupInit /\ [][CleanupNext]_vars

----------------------------------------------------------------------------
(* The resolver specification: the patch pass, on a disk that does not     *)
(* fail, over one backing file assembled from fragments of link syntax and *)
(* shared by every node of the index.                                      *)

MyNote == <<"M", "y", " ", "N", "o", "t", "e">>
IdABC123 == <<"A", "B", "C", "1", "2", "3">>
LinkABC123 ==
    <<"[", "[", "i", "d", ":", "A", "B", "C", "1", "2", "3", "]", "[",
      "S", "e", "e", " ", "t", "h", "i", "s", "]", "]">>
PatchedMyNote ==
    <<"[", "[", ".", "/", "M", "y", "%", "2", "0", "N", "o", "t", "e", ".", "m", "d",
      "]", "[", "S", "e", "e", " ", "t", "h", "i", "s", "]", "]">>

\* The pieces a backing file is assembled from.
Fragments ==
    { <<"[", "[", "i", "d", ":", "A", "1", "]", "[">>,
      <<"[", "[", "i", "d", ":", "A", "2", "]", "[", "y", " ", "z", "]", "]">>,
      <<"[", "[", "i", "d", ":", "a", "2", "]", "[", "y", "]", "]">>,
      LinkABC123,
      LinkOpen,
      LinkMid,
      LinkClose,
      <<"A", "1">>,
      <<"x">>,
      <<" ">> }

RECURSIVE Flatten(_)
Flatten(parts) == IF parts = <<>> THEN <<>> ELSE Head(parts) \o Flatten(Tail(parts))

Documents == {Flatten(parts) : parts \in UNION {[1..k -> Fragments] : k \in 0..MaxFrags}}

\* The stores of the resolver specification; every node lives in a.org.
ResolverStores ==
    { << Node(IdA1, AOrg, 0, Alpha), Node(IdA2, AOrg, 1, MyNote) >>,
      << Node(IdA1, AOrg, 0, Alpha), Node(IdA2, AOrg, 1, <<"a", "[", "i", "[", "0", "]", "]">>) >>,
      << Node(IdABC123, AOrg, 0, MyNote) >> }

ResolverInit ==
    /\ pc = "patch"
    /\ input = Affirmative
    /\ rows \in ResolverStores
    /\ files0 \in {[f \in {AOrg} |-> d] : d \in Documents}
    /\ files = files0
    /\ target = <<>>
    /\ nodes = collect(cleaned(rows))
    /\ order \in Orders(DOMAIN nodes)
    /\ idx = 1
    /\ log = <<>>
    /\ err = ""

ResolverNext == patch_links_panicked \/ patch_links_ok

ResolverSpec == ResolverInit /\ [][ResolverNext]_vars

----------------------------------------------------------------------------
(* Notions the properties are stated with.  The token grammar is written   *)
(* out here from its description, apart from the regex above.              *)

LastOf(s) == s[Len(s)]

\* The call of op for the node id is in the log with the result res.
Called(op, id, res) == \E q \in DOMAIN log : log[q] = [op |-> op, id |-> id, res |-> res]

PositionOf(id) == CHOOSE k \in DOMAIN order : order[k] = id

\* The characters 0-9, A-F and '-'.
HexUpperOrDash == {"0", "1", "2", "3", "4", "5", "6", "7", "8", "9",
                   "A", "B", "C", "D", "E", "F", "-"}

\* The tokens [[id:<ID>][<DISPLAY>]] of s: start is where "[[id:" stands,
\* mid where "][" stands and close where "]]" stands; ID (one or more of
\* 0-9, A-F, '-') lies between start and mid, DISPLAY (one or more
\* characters other than ']') between mid and close.
Tokens(s) ==
    LET starts == {i \in 1..Len(s) : LooksAt(s, i, <<"[", "[", "i", "d", ":">>)}
        mids   == {m \in 1..Len(s) : LooksAt(s, m, <<"]", "[">>)}
        closes == {c \in 1..Len(s) : LooksAt(s, c, <<"]", "]">>)}
    IN  {t \in [start : starts, mid : mids, close : closes] :
            /\ t.start + 6 <= t.mid
            /\ \A k \in (t.start + 5)..(t.mid - 1) : s[k] \in HexUpperOrDash
            /\ t.mid + 3 <= t.close
            /\ \A k \in (t.mid + 2)..(t.close - 1) : s[k] # "]"}

TokenId(s, t) == SubSeq(s, t.start + 5, t.mid - 1)
TokenDisplay(s, t) == SubSeq(s, t.mid + 2, t.close - 1)
TokenLen(t) == t.close + 2 - t.start

\* The title with every space replaced by %20, built from its end.
RECURSIVE Encoded(_)
Encoded(title) ==
    IF title = <<>> THEN <<>>
    ELSE Encoded(SubSeq(title, 1, Len(title) - 1))
            \o (IF LastOf(title) = " " THEN <<"%", "2", "0">> ELSE <<LastOf(title)>>)

\* [[./<T>.md][<DISPLAY>]] for the token t of s.
Rewritten(s, t, index) ==
    <<"[", "[", ".", "/">> \o Encoded(index[TokenId(s, t)].title)
        \o <<".", "m", "d", "]", "[">> \o TokenDisplay(s, t) \o <<"]", "]">>

RECURSIVE Growth(_, _, _)
Growth(s, toks, index) ==
    IF toks = {} THEN 0
    ELSE LET t == CHOOSE x \in toks : TRUE
         IN  Len(Rewritten(s, t, index)) - TokenLen(t) + Growth(s, toks \ {t}, index)

\* By how much the text before position p has grown, toks being the tokens of s.
Shift(s, toks, p, index) == Growth(s, {t \in toks : t.close + 1 < p}, index)

\* out is s with each token replaced by its rewriting and all else kept.
ResolvedAs(s, out, index) ==
    LET toks == Tokens(s)
    IN  /\ \A t \in toks : TokenId(s, t) \in DOMAIN index
        /\ Len(out) = Len(s) + Shift(s, toks, Len(s) + 1, index)
        /\ \A t \in toks :
              LooksAt(out, t.start + Shift(s, toks, t.start, index), Rewritten(s, t, index))
        /\ \A p \in 1..Len(s) :
              (\A t \in toks : p < t.start \/ p > t.close + 1)
                  => out[p + Shift(s, toks, p, index)] = s[p]

\* s holds a token whose id is no key of the index.
HasDanglingToken(s, index) == \E t \in Tokens(s) : TokenId(s, t) \notin DOMAIN index

\* The step is a call of patch_links, of export.
PatchStep == InPatchLoop /\ log' # log
ExportStep == InExportLoop /\ log' # log

\* An earlier patch_links has rewritten the backing file of the current node.
AlreadyPatched ==
    \E q \in DOMAIN log :
        /\ log[q].op = "patch"
        /\ log[q].res = "ok"
        /\ nodes[log[q].id].file = current.file

\* The first loop of main has run to its end.
PatchPassOver ==
    /\ input = Affirmative
    /\ \/ pc \in {"export", "done"}
       \/ \E q \in DOMAIN log : log[q].op = "export"

\* Two nodes a, b with one destination, a coming first in the iteration.
Collide(a, b) ==
    /\ a \in DOMAIN nodes
    /\ b \in DOMAIN nodes
    /\ a # b
    /\ nodes[a].title = nodes[b].title
    /\ PositionOf(a) < PositionOf(b)

----------------------------------------------------------------------------
(* C1 *)

\* C1: an export is called only after patch_links has returned Ok for every
\* node of the index, nodes sharing one backing file included, and once an
\* export has been called no patch_links is called any more.
C1_AllPatchedBeforeAnyExport ==
    \A q \in DOMAIN log :
        log[q].op = "export" =>
            /\ \A id \in DOMAIN nodes :
                  \E p \in 1..(q - 1) : log[p] = [op |-> "patch", id |-> id, res |-> "ok"]
            /\ \A p \in q..Len(log) : log[p].op = "export"

\* A run that ended well over two nodes sharing one backing file.
C1_Witness ==
    /\ pc = "done"
    /\ \E a, b \in DOMAIN nodes : a # b /\ nodes[a].file = nodes[b].file
    /\ \E q \in DOMAIN log : log[q].op = "export"

----------------------------------------------------------------------------
(* C2 *)

\* C2: a call of export for a node whose destination file exists does not
\* run the converter, leaves the target directory as it is and returns Ok:
\* the loop goes on to the next node.
C2_ExistingDestinationUntouched ==
    [][ (ExportStep /\ current.title \in DOMAIN target) =>
            /\ target' = target
            /\ log' = Logged("export", current, "skip")
            /\ pc' = "export"
            /\ idx' = idx + 1
            /\ err' = "" ]_vars

\* An export was skipped and the file of an earlier run is still in place.
C2_Witness ==
    /\ \E q \in DOMAIN log : log[q].op = "export" /\ log[q].res = "skip"
    /\ \E t \in DOMAIN target : target[t] = Preexisting

----------------------------------------------------------------------------
(* C3 *)

\* C3: a call of patch_links on a backing file that an earlier call has
\* already patched succeeds and leaves the contents of the file exactly as
\* they were, whatever the titles of the index.
C3_RepatchIsNoOp ==
    [][ (PatchStep /\ AlreadyPatched) =>
            /\ log' = Logged("patch", current, "ok")
            /\ files' = files ]_vars

----------------------------------------------------------------------------
(* C4 *)

\* C4: a call of patch_links on a backing file holding a token whose id is
\* no key of the index never returns Ok and never writes: either the file
\* cannot be read, or resolving the link panics; the file is as it was and
\* the run is over, no step following the panic.
C4_DanglingIdAborts ==
    [][ /\ pc # "panicked"
        /\ (/\ PatchStep
            /\ current.file \in DOMAIN files
            /\ HasDanglingToken(files[current.file], nodes)) =>
                /\ files' = files
                /\ \/ /\ log' = Logged("patch", current, "panic")
                      /\ pc' = "panicked"
                      /\ err' # ""
                   \/ /\ log' = Logged("patch", current, "read_err")
                      /\ pc' = "failed" ]_vars

\* A run a dangling id has ended, the backing files being as they were.
C4_Witness ==
    /\ pc = "panicked"
    /\ log # <<>>
    /\ LastOf(log).res = "panic"
    /\ HasDanglingToken(files[nodes[LastOf(log).id].file], nodes)
    /\ files = files0

----------------------------------------------------------------------------
(* C5 *)

\* C5: a patch_links that returns Ok has replaced every token
\* [[id:<ID>][<DISPLAY>]] of the file by [[./<T>.md][<DISPLAY>]], T being
\* the title of the node under <ID> with each space as %20, and has kept
\* every character outside the tokens; [[id:ABC123][See this]] with ABC123
\* titled My Note becomes [[./My%20Note.md][See this]].
C5_TokensRewrittenRestKept ==
    [][ (PatchStep /\ log' = Logged("patch", current, "ok")) =>
            /\ ResolvedAs(files[current.file], files'[current.file], nodes)
            /\ (Tokens(files[current.file]) = {}) => files' = files
            /\ (/\ files[current.file] = LinkABC123
                /\ IdABC123 \in DOMAIN nodes
                /\ nodes[IdABC123].title = MyNote) =>
                    files'[current.file] = PatchedMyNote ]_vars

\* The example of the claim has been patched.
C5_Witness ==
    /\ files0[AOrg] = LinkABC123
    /\ files[AOrg] = PatchedMyNote
    /\ Called("patch", IdABC123, "ok")

----------------------------------------------------------------------------
(* C6 *)

\* C6: a run that has ended takes no further step; a patch_links or export
\* that fails (read or write error, converter not spawned, converter exiting
\* with a failure) ends the run with an error at once, so only the last call
\* of a run can be a failed one; and no call is made twice for one node.
C6_FailFastNoRetry ==
    [][ /\ pc \notin Ended
        /\ (log' # log) =>
              LET e == LastOf(log')
              IN  /\ log' = Append(log, e)
                  /\ e.res \in {"read_err", "write_err", "spawn_err", "exit_err"} =>
                        pc' = "failed" /\ err' # ""
                  /\ e.res \notin {"ok", "skip"} => pc' \in {"failed", "panicked"}
                  /\ \A q \in DOMAIN log :
                        /\ log[q].res \in {"ok", "skip"}
                        /\ ~(log[q].op = e.op /\ log[q].id = e.id) ]_vars

\* A run that failed in an export with a node still waiting to be exported.
C6_Witness ==
    /\ pc = "failed"
    /\ Len(order) = 2
    /\ Len(log) = 3
    /\ LastOf(log).op = "export"
    /\ LastOf(log).res = "exit_err"

----------------------------------------------------------------------------
(* C7 *)

\* C7: a run whose line is not exactly "y\n" takes one step only, ending
\* with Ok (or with the error of the prompt's own I/O), and that step, like
\* every step of the prompt, loads no node, calls no patch_links or export
\* and leaves the backing files and the target directory as they are.
C7_NoMutationWithoutConfirmation ==
    [][ /\ (pc = "confirm" \/ input # Affirmative) =>
              UNCHANGED <<files, target, nodes, order, log>>
        /\ (input # Affirmative) =>
              /\ pc = "confirm"
              /\ \/ pc' = "done" /\ err' = ""
                 \/ pc' = "failed" /\ err' = "io error on the prompt" ]_vars

\* A run over a store with rows that was declined and ended with Ok.
C7_Witness ==
    /\ pc = "done"
    /\ input = <<"y">>
    /\ rows # <<>>
    /\ files = files0
    /\ log = <<>>

----------------------------------------------------------------------------
(* C8 *)

Count(s, c) == Cardinality({k \in DOMAIN s : s[k] = c})

\* C8: a node that get_nodes has cleaned up is left unchanged by a second
\* cleanup; its title holds no quote and no slash, each slash of the raw
\* title having become " over " and each quote having gone (A/B gives
\* A over B, Foo"Bar gives FooBar); its id and file hold no quote; its level
\* is the raw one.
C8_CleanupIdempotent ==
    pc = "patch" =>
        \A id \in DOMAIN nodes :
            LET n == nodes[id]
                raw == rows[1]
            IN  /\ cleanup(n) = n
                /\ Quote \notin Range(n.title)
                /\ Slash \notin Range(n.title)
                /\ Quote \notin Range(n.id)
                /\ Quote \notin Range(n.file)
                /\ n.level = raw.level
                /\ Len(n.title) = Len(raw.title) - Count(raw.title, Quote)
                                    + 5 * Count(raw.title, Slash)
                /\ raw.title = <<"A", "/", "B">> => n.title = AOverB
                /\ raw.title = FooQuoteBar => n.title = <<"F", "o", "o", "B", "a", "r">>

\* A cleaned-up row whose raw title held a quote and a slash and whose raw
\* id and file held quotes.
C8_Witness ==
    /\ pc = "patch"
    /\ Quote \in Range(rows[1].title)
    /\ Slash \in Range(rows[1].title)
    /\ Quote \in Range(rows[1].id)
    /\ Quote \in Range(rows[1].file)

----------------------------------------------------------------------------
(* C9 *)

\* The scenario of the claim, and the same with ids of hexadecimal digits.
ScenarioN == rows = <<RowPool[1], RowPool[2]>> /\ files0[AOrg] = LinkN2
ScenarioA == rows = <<RowPool[3], RowPool[4]>> /\ files0[AOrg] = LinkA2

\* C9 as stated: index {N1 -> Alpha, a.org, 0; N2 -> Beta, a.org, 1}, a.org
\* holding [[id:N2][go]]: after the patch pass a.org holds [[./Beta.md][go]]
\* and no longer [[id:N2][go]].
C9_ScenarioAsStated ==
    (ScenarioN /\ PatchPassOver) =>
        /\ Contains(files[AOrg], PatchedBeta)
        /\ ~Contains(files[AOrg], LinkN2)

\* C9 amended: with ids the token grammar admits (A1, A2 for N1, N2), after
\* the patch pass a.org holds [[./Beta.md][go]] and no longer
\* [[id:A2][go]]; with the ids N1, N2 the text [[id:N2][go]] is no token and
\* a.org is left as it was.
C9_ScenarioWithHexIds ==
    /\ (ScenarioA /\ PatchPassOver) =>
          /\ Contains(files[AOrg], PatchedBeta)
          /\ ~Contains(files[AOrg], LinkA2)
    /\ (ScenarioN /\ PatchPassOver) => files[AOrg] = LinkN2

\* The scenario with hexadecimal ids, run to its end.
C9_Witness ==
    /\ ScenarioA
    /\ pc = "done"
    /\ Called("patch", IdA1, "ok")
    /\ Called("patch", IdA2, "ok")

----------------------------------------------------------------------------
(* C10 *)

\* C10 as stated: of two nodes with one sanitized title, after the export
\* pass the destination holds the output of the later one, the converter
\* having run for both.
C10_LastWriterWins ==
    pc = "done" =>
        \A a, b \in DOMAIN nodes :
            Collide(a, b) =>
                /\ target[nodes[a].title] = Converted(nodes[b])
                /\ ~Called("export", a, "skip")
                /\ ~Called("export", b, "skip")

\* C10 amended: of two nodes with one sanitized title, after the export pass
\* the export of the later one has been skipped, the converter has run for
\* the earlier one unless the destination was there before, and the
\* destination holds the output of the earlier one or the file that was
\* there before: the first writer wins.
C10_FirstWriterWins ==
    pc = "done" =>
        \A a, b \in DOMAIN nodes :
            Collide(a, b) =>
                /\ Called("export", b, "skip")
                /\ \/ /\ Called("export", a, "ok")
                      /\ target[nodes[a].title] = Converted(nodes[a])
                   \/ /\ Called("export", a, "skip")
                      /\ target[nodes[a].title] = Preexisting

\* Two nodes collided and the destination holds the output of the earlier.
C10_Witness ==
    /\ pc = "done"
    /\ \E a, b \in DOMAIN nodes :
          Collide(a, b) /\ target[nodes[a].title] = Converted(nodes[a])

====
